---- MODULE Spec2Model ----
(***************************************************************************)
(* Model of WaterfallApp (src/main.py): the RTL-SDR waterfall controller.  *)
(*                                                                         *)
(* Handlers are the Qt slots of the class: update_once (timer timeout),    *)
(* apply_settings (Apply button) and closeEvent.  They run on the single   *)
(* Qt event loop; the only blocking point is sdr.read_samples, so a tick   *)
(* is modelled in two steps (enter and start the read / the read returns   *)
(* and the rest of the pass runs) and the other handlers in one step.      *)
(*                                                                         *)
(* Numbers.  dB values are counted in units of 2^-21 dB (DbUnit units per  *)
(* dB).  A spectrum bin and a stored float32 value are whole units, an     *)
(* integer.  A float64 value of the level estimator (the percentile, the   *)
(* smoothed ceiling, the floor) is a pair <<u, f>> that stands for         *)
(* u + f/FracDen units, 0 <= f < FracDen = 2^27: one step of f is 2^-48 dB,*)
(* the last bit of a float64 between 16 and 32 dB, so every float64 from   *)
(* 16 dB up is such a pair.  The products and the sum of line 195 and the  *)
(* difference of line 198 are computed exactly on magnitudes of three limbs*)
(* (steps of 2^-52 dB) and rounded as float64 rounds them, to 53 bits, ties*)
(* to even.  astype(np.float32) keeps 24 bits: from 4 dB up the float32    *)
(* values are whole units and F32 rounds to the nearest of them, ties to   *)
(* the even one.  All levels of the model lie between -512 and -16 dB.     *)
(* The percentile of line 189 is interpolated by numpy in the precision of *)
(* the spectrum, with a rounding after every operation; it is computed on  *)
(* exact binary floating point values of 53 bits (float64) and of 24 bits  *)
(* (float32, the precision numpy from 2 on keeps after line 175).          *)
(* Frequencies are integers in kHz.  The FFT sizes 1024..8192 and the 300  *)
(* rows are scaled down (NfftUnit, Rows).                                  *)
(***************************************************************************)
EXTENDS Integers, Sequences, FiniteSets, TLC

\* ---------------------------------------------------------------- bounds
NfftHalf == 1      \* stands for 512: every FFT size offered is even
Rows == 2          \* stands for waterfall_rows = 300
MaxTicks == 3      \* timer firings explored
MaxApplies == 2    \* Apply clicks explored

\* the unit of the FFT sizes: stands for 1024, the combo box offers 1,2,4,8
NfftUnit == 2 * NfftHalf

\* ------------------------------------------------------- number formats
DbUnit == 2097152        \* units per dB: 2^21
F32Mantissa == 16777216  \* 2^24: float32 keeps 24 significant bits
FracDen == 134217728     \* 2^27: a level <<u, f>> is u + f / FracDen units
Limb == 2097152          \* 2^21: a magnitude <<a, b, c>> is a*2^42 + b*2^21 + c
WideDb == 1024           \* first limb of 1 dB, which is 2^52 steps

Db(x) == x * DbUnit

\* the integer nearest to a / b for b > 0, ties to the even one
RoundEven(a, b) ==
    LET q == a \div b
        r == a % b
    IN  IF 2 * r < b THEN q
        ELSE IF 2 * r > b THEN q + 1
        ELSE IF q % 2 = 0 THEN q ELSE q + 1

\* a float64 level that is a whole number of units
Whole(x) == << x, 0 >>

\* float64 comparison
LevelLt(a, b) == a[1] < b[1] \/ (a[1] = b[1] /\ a[2] < b[2])
LevelLe(a, b) == a = b \/ LevelLt(a, b)

\* ---- magnitudes in steps of 2^-52 dB, three limbs of 21 bits
WideZero == << 0, 0, 0 >>
WideNorm(w) ==
    LET b == w[2] + (w[3] \div Limb)
    IN  << w[1] + (b \div Limb), b % Limb, w[3] % Limb >>
WideAdd(x, y) == WideNorm(<< x[1] + y[1], x[2] + y[2], x[3] + y[3] >>)
WideSub(x, y) == WideNorm(<< x[1] - y[1], x[2] - y[2], x[3] - y[3] >>)
WideTimes(x, k) == WideNorm(<< x[1] * k, x[2] * k, x[3] * k >>)
WideLt(x, y) ==
    \/ x[1] < y[1]
    \/ x[1] = y[1] /\ x[2] < y[2]
    \/ x[1] = y[1] /\ x[2] = y[2] /\ x[3] < y[3]
\* quotient and remainder of x by a small k
WideDiv(x, k) ==
    LET b == (x[1] % k) * Limb + x[2]
        c == (b % k) * Limb + x[3]
    IN  [quot |-> << x[1] \div k, b \div k, c \div k >>, rem |-> c % k]

\* the magnitude of a negative level, and the negative level of a magnitude
\* (a unit is 2^31 steps, a step of f is 16 steps)
WideOf(x) ==
    LET u == IF x[2] = 0 THEN -x[1] ELSE -x[1] - 1
        f == IF x[2] = 0 THEN 0 ELSE FracDen - x[2]
    IN  << u \div 2048, (u % 2048) * 1024 + (f \div 131072), (f % 131072) * 16 >>
LevelOf(w) ==
    LET u == w[1] * 2048 + (w[2] \div 1024)
        f == (w[2] % 1024) * 131072 + (w[3] \div 16)
    IN  IF f = 0 THEN << -u, 0 >> ELSE << -u - 1, FracDen - f >>

\* a + g / (w * 2^42) >= k, for g below 512 dB
WideReaches(a, g, w, k) ==
    IF ~WideLt(a, k) THEN TRUE
    ELSE LET d == WideSub(k, a)
         IN  /\ d[1] = 0
             /\ d[2] = 0
             /\ d[3] < 512
             /\ ~WideLt(g, << d[3] * w, 0, 0 >>)

\* the binary exponent of (a + g / (w * 2^42)) / d, a value from 1 dB up
F64Exponent(a, d, g, w) ==
    CHOOSE i \in 0..8 :
        /\ WideReaches(a, g, w, << d * WideDb * (2^i), 0, 0 >>)
        /\ ~WideReaches(a, g, w, << d * WideDb * (2^(i + 1)), 0, 0 >>)

\* float64 rounding of the exact value (a + g / (w * 2^42)) / d: to a multiple
\* of 2^i steps, i its binary exponent, ties to the even multiple
F64Round(a, d, g, w) ==
    LET s == 2^F64Exponent(a, d, g, w)
        byD == WideDiv(a, d)
        byS == WideDiv(byD.quot, s)
        rho == byS.rem * d + byD.rem
        g2 == WideAdd(g, g)
        short(k) == k * d * s - 2 * rho
        atLeast(k) == short(k) <= 0 \/ ~WideLt(g2, << short(k) * w, 0, 0 >>)
        exactly(k) == short(k) >= 0 /\ g2 = << short(k) * w, 0, 0 >>
        even == byS.quot[3] % 2 = 0
        inc == IF ~atLeast(1) THEN 0
               ELSE IF ~atLeast(2) THEN (IF exactly(1) /\ even THEN 0 ELSE 1)
               ELSE IF ~atLeast(3) THEN 1
               ELSE IF exactly(3) /\ ~even THEN 1 ELSE 2
    IN  WideTimes(WideAdd(byS.quot, << 0, 0, inc >>), s)

\* x * y in float64 for y = 0.9 and y = 0.1, whose float64 values are
\* (9 + 2^-52) / 10 and (1 + 2^-54) / 10
F64TimesNineTenths(x) == F64Round(WideTimes(x, 9), 10, x, 1024)
F64TimesOneTenth(x) == F64Round(x, 10, x, 4096)
\* x + y in float64 for magnitudes of one sign
F64Plus(x, y) == F64Round(WideAdd(x, y), 1, WideZero, 1)

\* exact sum and difference of levels
LevelAdd(a, b) ==
    LET f == a[2] + b[2]
    IN  IF f >= FracDen THEN << a[1] + b[1] + 1, f - FracDen >>
        ELSE << a[1] + b[1], f >>
LevelSub(a, b) ==
    LET f == a[2] - b[2]
    IN  IF f < 0 THEN << a[1] - b[1] - 1, f + FracDen >>
        ELSE << a[1] - b[1], f >>

\* whole units of the magnitude of a level
Magnitude(x) ==
    IF x[1] >= 0 THEN x[1] ELSE IF x[2] = 0 THEN -x[1] ELSE -x[1] - 1

\* spacing, in steps of f, of the float64 values of magnitude m units: one
\* step from 16 to 32 dB, doubling with every power of two above
RECURSIVE F64Spacing(_)
F64Spacing(m) == IF m < Db(32) THEN 1 ELSE 2 * F64Spacing(m \div 2)

\* the float64 value nearest to the level x
F64Level(x) ==
    LET s == F64Spacing(Magnitude(x))
        f == RoundEven(x[2], s) * s
    IN  IF f >= FracDen THEN << x[1] + 1, 0 >> ELSE << x[1], f >>

\* spacing, in units, of the float32 values of magnitude a: one unit from
\* 2^23 to 2^24 units (4 to 8 dB), doubling with every power of two above.
\* Below 2^23 units float32 is finer than the unit; the stored value is then
\* held to the unit.
RECURSIVE F32Spacing(_)
F32Spacing(a) == IF a < F32Mantissa THEN 1 ELSE 2 * F32Spacing(a \div 2)

\* .astype(np.float32): the float32 value nearest to the level x, ties to
\* the even one
F32(x) ==
    LET s == F32Spacing(Magnitude(x))
        q == x[1] \div s
        h == s - 2 * (x[1] % s)
        tie == (h = 0 /\ x[2] = 0) \/ (h = 1 /\ 2 * x[2] = FracDen)
        up == (h <= 0 /\ ~tie) \/ (h = 1 /\ 2 * x[2] > FracDen)
    IN  (IF up \/ (tie /\ q % 2 # 0) THEN q + 1 ELSE q) * s

\* ------------------------------------------------------------ constants
FillDb == Db(-120)             \* np.full(..., -120.0)
EpsilonDb == Db(-240)          \* 20*log10(0 + 1e-12)
DefaultDynamicRange == Db(60)  \* self.dynamic_range_db = 60.0
DefaultCenterKHz == 94900      \* 94.9e6 Hz, in kHz
DefaultSampleRateKHz == 2400   \* 2.4e6 Hz, in kHz
DefaultFps == 15
DefaultNfft == 2 * NfftUnit    \* 2048

\* items of the FFT combo box: "1024", "2048", "4096", "8192"
FftItems == {NfftUnit, 2 * NfftUnit, 4 * NfftUnit, 8 * NfftUnit}

\* values the form widgets are set to before Apply is clicked
FreqInputs == {100000}   \* 100.0 MHz
SrInputs == {1200}       \* 1.2 MS/s
FpsInputs == {60}
GainTexts == {" Auto ", "35", "abc"}

\* where a device call of apply_settings raises (IOError from the driver):
\* the three setters of lines 141-150, or a read of sdr.sample_rate or
\* sdr.center_freq in update_freq_axis (lines 129-130)
ApplyFailures == {"none", "center_freq", "sample_rate", "gain", "freq_axis"}

AutoGain == [mode |-> "auto", db |-> 0]
FixedGain(g) == [mode |-> "fixed", db |-> g]

\* _db_max_smooth: <<>> is None, <<v>> is the float v
None == << >>
Some(v) == << v >>

VARIABLES
    sdr_center_freq,   \* self.sdr.center_freq
    sdr_sample_rate,   \* self.sdr.sample_rate
    sdr_gain,          \* self.sdr.gain
    sdr_open,          \* the device handle is open
    sdr_calls_closed,  \* a device call was made after sdr.close()
    nfft,              \* self.nfft
    fps,               \* self.fps
    waterfall_rows,    \* self.waterfall_rows
    dynamic_range_db,  \* self.dynamic_range_db
    window,            \* self.window
    waterfall,         \* self.waterfall: rows, oldest first
    db_max_smooth,     \* self._db_max_smooth
    freqs_mhz,         \* self.freqs_mhz
    timer_active,      \* self.timer.isActive()
    timer_interval,    \* self.timer.interval()
    closing,           \* self._closing
    pc,                \* "idle" or "reading" (update_once inside read_samples)
    raised,            \* exception that escaped the last handler, or "none"
    last,              \* the last handler that finished and how; a Close is
                       \* "close_again" if an earlier Close had stopped the
                       \* timer and released the device, else "close"
    tick,              \* locals of the handler that ran last (update_once,
                       \* or gain_txt of apply_settings once line 145 ran)
    img_updates,       \* number of img.setImage calls
    pushed,            \* rows written since the matrix was last allocated
    smooth_nfft,       \* nfft under which _db_max_smooth was accumulated
    cand_range,        \* least and greatest new_db_max since it was None
    submitted,         \* widget values of the last Apply that ran to its end
    nticks,            \* timer firings so far
    napplies           \* Apply clicks so far

vars == << sdr_center_freq, sdr_sample_rate, sdr_gain, sdr_open,
           sdr_calls_closed, nfft, fps, waterfall_rows, dynamic_range_db,
           window, waterfall, db_max_smooth, freqs_mhz, timer_active,
           timer_interval, closing, pc, raised, last, tick, img_updates,
           pushed, smooth_nfft, cand_range, submitted, nticks, napplies >>

\* ------------------------------------------------------- pure functions

\* np.hanning(n).astype(np.float32): only its kind and length matter here
Hanning(n) == [kind |-> "hanning", length |-> n]

\* np.full((rows, n), -120.0, dtype=np.float32)
FullMatrix(rows, n) ==
    LET fill == F32(Whole(FillDb))
        row == [c \in 1..n |-> fill]
    IN  [r \in 1..rows |-> row]

\* int(1000.0 / fps)
TimerPeriod(f) == 1000 \div f

\* mutation of FreqAxis: the fftshift is missing, the bins keep the order of
\* fftfreq (0 .. n/2-1, -n/2 .. -1)
FreqAxisUnshifted(n, sr, cf) ==
    [i \in 1..n |-> cf * n + (IF i - 1 < n \div 2 THEN i - 1 ELSE i - 1 - n) * sr]

\* update_freq_axis: fftshift(fftfreq(n, d=1/sr)) + cf.  Bin i (from 1) is
\* cf + (i - 1 - n div 2) * sr / n; the axis is kept multiplied by n so that
\* it stays an integer.
FreqAxis(n, sr, cf) == [i \in 1..n |-> cf * n + (i - 1 - (n \div 2)) * sr]

\* gain_input.text().strip().lower()
StripLower(txt) == IF txt = " Auto " THEN "auto" ELSE txt

\* float(gain_txt): the value, or ValueError
IsFloatText(txt) == txt = "35"
ParseFloat(txt) == IF txt = "35" THEN Db(35) ELSE 0

\* the elements of s in ascending order: np.percentile partitions the array
Sorted(s) == SortSeq(s, LAMBDA x, y : x < y)

\* ------------------------------------------- binary floating point values
\* np.percentile (line 189) interpolates in the floating point type of the
\* array and rounds after every operation.  A natural number is a sequence
\* of limbs, least significant first, without a leading zero: << >> is 0.
BigBase == 32768         \* 2^15: a limb
F64Bits == 53            \* significant bits of a float64
F32Bits == 24            \* significant bits of a float32

RECURSIVE BigOf(_)
BigOf(n) == IF n = 0 THEN << >> ELSE << n % BigBase >> \o BigOf(n \div BigBase)

RECURSIVE BigToInt(_)
BigToInt(x) == IF x = << >> THEN 0 ELSE x[1] + BigBase * BigToInt(Tail(x))

RECURSIVE BigTrim(_)
BigTrim(x) ==
    IF x = << >> \/ x[Len(x)] # 0 THEN x ELSE BigTrim(SubSeq(x, 1, Len(x) - 1))

\* limbs that left their range are brought back, the carry c moving up
RECURSIVE BigCarry(_, _)
BigCarry(x, c) ==
    IF x = << >> THEN BigOf(c)
    ELSE LET v == x[1] + c
         IN  << v % BigBase >> \o BigCarry(Tail(x), v \div BigBase)

BigLimb(x, i) == IF i <= Len(x) THEN x[i] ELSE 0
BigLonger(x, y) == IF Len(x) < Len(y) THEN Len(y) ELSE Len(x)

BigAdd(x, y) ==
    BigCarry([i \in 1..BigLonger(x, y) |-> BigLimb(x, i) + BigLimb(y, i)], 0)
\* x - y for y <= x
BigSub(x, y) ==
    BigTrim(BigCarry([i \in 1..Len(x) |-> x[i] - BigLimb(y, i)], 0))
\* x * k for 0 <= k < BigBase
BigTimes(x, k) == BigTrim(BigCarry([i \in 1..Len(x) |-> x[i] * k], 0))

RECURSIVE BigMul(_, _)
BigMul(x, y) ==
    IF x = << >> \/ y = << >> THEN << >>
    ELSE BigAdd(BigTimes(x, y[1]), BigTrim(<< 0 >> \o BigMul(x, Tail(y))))

BigLess(x, y) ==
    IF Len(x) # Len(y) THEN Len(x) < Len(y)
    ELSE LET d == { i \in 1..Len(x) : x[i] # y[i] }
         IN  d # {} /\ LET top == CHOOSE i \in d : \A j \in d : j <= i
                       IN  x[top] < y[top]

\* quotient and remainder of x by k, 0 < k < BigBase
RECURSIVE BigDivide(_, _)
BigDivide(x, k) ==
    IF x = << >> THEN [quot |-> << >>, rem |-> 0]
    ELSE LET hi == BigDivide(Tail(x), k)
             v == hi.rem * BigBase + x[1]
         IN  [quot |-> << v \div k >> \o hi.quot, rem |-> v % k]
BigDiv(x, k) ==
    LET r == BigDivide(x, k) IN [quot |-> BigTrim(r.quot), rem |-> r.rem]

\* x * 2^n and the integer part of x / 2^n
BigShl(x, n) ==
    IF x = << >> THEN << >>
    ELSE [i \in 1..(n \div 15) |-> 0] \o BigTimes(x, 2 ^ (n % 15))
BigShr(x, n) ==
    IF n \div 15 >= Len(x) THEN << >>
    ELSE BigDiv(SubSeq(x, n \div 15 + 1, Len(x)), 2 ^ (n % 15)).quot

RECURSIVE IntBits(_)
IntBits(k) == IF k = 0 THEN 0 ELSE 1 + IntBits(k \div 2)
\* number of significant bits
BigBits(x) == IF x = << >> THEN 0 ELSE 15 * (Len(x) - 1) + IntBits(x[Len(x)])

BigEven(x) == x = << >> \/ x[1] % 2 = 0

\* the integer nearest to x / 2^n, n >= 1, ties to the even one
BigRound(x, n) ==
    LET q == BigShr(x, n)
        r == BigSub(x, BigShl(q, n))
        h == BigShl(<< 1 >>, n - 1)
    IN  IF BigLess(r, h) \/ (r = h /\ BigEven(q)) THEN q
        ELSE BigAdd(q, << 1 >>)

\* A floating point value is [neg, m, e]: m * 2^e, negated when neg.
FloatOf(k) == [neg |-> k < 0, m |-> BigOf(IF k < 0 THEN -k ELSE k), e |-> 0]
FloatHalf == [neg |-> FALSE, m |-> << 1 >>, e |-> -1]

\* the value of p significant bits nearest to v, ties to even
Fl(p, v) ==
    LET n == BigBits(v.m) - p
    IN  IF n <= 0 THEN v
        ELSE [neg |-> v.neg, m |-> BigRound(v.m, n), e |-> v.e + n]

FloatNeg(x) == [x EXCEPT !.neg = ~x.neg]

\* x * y, x + y, x - y, each rounded to p bits
FloatTimes(p, x, y) ==
    Fl(p, [neg |-> x.neg # y.neg, m |-> BigMul(x.m, y.m), e |-> x.e + y.e])
FloatPlus(p, x, y) ==
    LET e == IF x.e < y.e THEN x.e ELSE y.e
        mx == BigShl(x.m, x.e - e)
        my == BigShl(y.m, y.e - e)
    IN  Fl(p, IF x.neg = y.neg THEN [neg |-> x.neg, m |-> BigAdd(mx, my), e |-> e]
              ELSE IF BigLess(mx, my)
                   THEN [neg |-> y.neg, m |-> BigSub(my, mx), e |-> e]
                   ELSE [neg |-> x.neg, m |-> BigSub(mx, my), e |-> e])
FloatMinus(p, x, y) == FloatPlus(p, x, FloatNeg(y))

\* a / k rounded to p bits, for integers 0 < a and 0 < k < BigBase: the
\* quotient is taken to more than p + 1 bits and a remainder is kept as one
\* more bit
FloatRatio(p, a, k) ==
    LET d == BigDiv(BigShl(BigOf(a), p + 15), k)
        m == BigAdd(BigShl(d.quot, 1), IF d.rem = 0 THEN << >> ELSE << 1 >>)
    IN  Fl(p, [neg |-> FALSE, m |-> m, e |-> 0 - p - 16])

\* x <= y for x, y >= 0
FloatLe(x, y) ==
    LET e == IF x.e < y.e THEN x.e ELSE y.e
    IN  ~BigLess(BigShl(y.m, y.e - e), BigShl(x.m, x.e - e))

\* floor of x >= 0, an integer
FloatFloor(x) ==
    BigToInt(IF x.e >= 0 THEN BigShl(x.m, x.e) ELSE BigShr(x.m, 0 - x.e))

\* the level <<u, f>> of a floating point number of units that is a
\* multiple of 1/FracDen of a unit (every float64 from 16 dB up)
LevelOfFloat(x) ==
    LET steps == IF x.e >= -27 THEN BigShl(x.m, x.e + 27)
                 ELSE BigShr(x.m, 0 - 27 - x.e)
        u == BigToInt(BigShr(steps, 27))
        f == BigToInt(BigSub(steps, BigShl(BigShr(steps, 27), 27)))
    IN  IF ~x.neg THEN << u, f >>
        ELSE IF f = 0 THEN << 0 - u, 0 >> ELSE << 0 - u - 1, FracDen - f >>

\* np.percentile(a, 99) with the default linear method, in floating point of
\* p significant bits (numpy/lib/function_base.py, _quantile and _lerp):
\* q = 99 / 100, the virtual index (n - 1) * q, the two order statistics
\* about it and the weight t of the upper one; then a + (b - a) * t, or
\* b - (b - a) * (1 - t) when t >= 0.5, rounded after every operation.
Percentile(p, s) ==
    LET n == Len(s)
        srt == Sorted(s)
        q == FloatRatio(p, 99, 100)
        virtual == FloatTimes(p, FloatOf(n - 1), q)
        lo == FloatFloor(virtual)
        t == FloatMinus(p, virtual, FloatOf(lo))
        a == Fl(p, FloatOf(srt[lo + 1]))
        b == Fl(p, FloatOf(srt[IF lo + 2 <= n THEN lo + 2 ELSE n]))
        diff == FloatMinus(p, b, a)
    IN  LevelOfFloat(
            IF FloatLe(FloatHalf, t)
            THEN FloatMinus(p, b,
                     FloatTimes(p, diff, FloatMinus(p, FloatOf(1), t)))
            ELSE FloatPlus(p, a, FloatTimes(p, diff, t)))

\* float(np.percentile(power_db, 99)) of a float64 spectrum: numpy before 2
\* transforms in double precision
Percentile99(s) == Percentile(F64Bits, s)

\* float(np.percentile(power_db, 99)) of a float32 spectrum: numpy from 2 on
\* keeps the single precision of line 175 through the transform, and the
\* float32 result is widened by float()
Percentile99Single(s) == Percentile(F32Bits, s)

\* mutation of Ema: the two weights are swapped
EmaSwapped(prev, cand) ==
    LevelOf(F64Plus(F64TimesNineTenths(WideOf(cand)),
                    F64TimesOneTenth(WideOf(prev))))

\* 0.9 * self._db_max_smooth + 0.1 * new_db_max: two float64 products and
\* a float64 sum
Ema(prev, cand) ==
    LevelOf(F64Plus(F64TimesNineTenths(WideOf(prev)),
                    F64TimesOneTenth(WideOf(cand))))

\* np.clip(v, lo, hi) = minimum(maximum(v, lo), hi), on float64
Clip(v, lo, hi) ==
    LET m == IF LevelLt(v, lo) THEN lo ELSE v
    IN  IF LevelLt(hi, m) THEN hi ELSE m

\* levels of the spectra the sample blocks produce
WeakDb == Db(-60) + DbUnit \div 2   \* -59.5 dB in every bin
StrongDb == WeakDb + Db(40)         \* the same samples times 100: -19.5 dB

\* sdr.read_samples(self.nfft): a sample block is abstracted by its length
\* and by the spectrum lines 178-186 return for it: flat at one of two
\* levels, or uneven.  The driver returns n samples; a block of 1 or n + 1
\* samples is what a short or a long read would be.  Two sets of blocks are
\* explored, each in a specification of its own: flat spectra with every
\* length, and full-length reads with an uneven spectrum among them.
Blocks(n) ==
    { [length |-> n, kind |-> "weak"],
      [length |-> n, kind |-> "strong"],
      [length |-> 1, kind |-> "weak"],
      [length |-> n + 1, kind |-> "weak"] }
UnevenBlocks(n) ==
    { [length |-> n, kind |-> "weak"],
      [length |-> n, kind |-> "uneven"],
      [length |-> n + 1, kind |-> "weak"] }

\* iq * self.window broadcasts only equal lengths or a length of 1
Broadcasts(m, n) == m = n \/ m = 1 \/ n = 1

\* lines 178-186: remove the mean, window, FFT, fftshift, 20*log10(|X|+1e-12).
\* A block of one sample minus its mean is 0, so every bin is 20*log10(1e-12).
\* The transform and the logarithm are not computed: the spectrum of a block
\* of n samples is given with its kind.  The uneven one falls from the strong
\* level by 1/16 dB from bin to bin and starts again after 64 bins, so that
\* no two of its bins are equal at the sizes explored; its bins are float32
\* values, as are the flat levels.
Transform(block, n) ==
    IF block.length = 1 /\ n # 1
    THEN [i \in 1..n |-> EpsilonDb]
    ELSE IF block.kind = "weak"
    THEN [i \in 1..n |-> WeakDb]
    ELSE IF block.kind = "strong"
    THEN [i \in 1..n |-> StrongDb]
    ELSE [i \in 1..n |-> StrongDb - (DbUnit \div 16) * ((i - 1) % 64)]

\* line 189 for a spectrum: what float(np.percentile(power_db, 99)) can
\* return.  Line 175 casts the samples to complex64; numpy before 2 transforms
\* them in double precision and interpolates in float64, numpy from 2 on
\* stays in single precision and interpolates in float32.  The numpy in use
\* is not recorded in the state: a run of either build is a run of the model.
Percentiles(power_db) ==
    { Percentile99(power_db), Percentile99Single(power_db) }

\* np.clip(power_db, db_min, db_max).astype(np.float32)
ClipRow(power_db, lo, hi) ==
    [i \in 1..Len(power_db) |-> F32(Clip(Whole(power_db[i]), lo, hi))]

\* mutation of Push: the last row is overwritten without scrolling
PushNoScroll(w, row) ==
    [r \in 1..Len(w) |-> IF r < Len(w) THEN w[r] ELSE row]

\* self.waterfall[:-1, :] = self.waterfall[1:, :]; self.waterfall[-1, :] = row
Push(w, row) ==
    [r \in 1..Len(w) |-> IF r < Len(w) THEN w[r + 1] ELSE row]

NoTick == [kind |-> "none"]

\* ----------------------------------------------------------------- Init
\* the state after WaterfallApp.__init__
Init ==
    /\ sdr_center_freq = DefaultCenterKHz
    /\ sdr_sample_rate = DefaultSampleRateKHz
    /\ sdr_gain = AutoGain
    /\ sdr_open = TRUE
    /\ sdr_calls_closed = FALSE
    /\ nfft = DefaultNfft
    /\ fps = DefaultFps
    /\ waterfall_rows = Rows
    /\ dynamic_range_db = DefaultDynamicRange
    /\ window = Hanning(DefaultNfft)
    /\ waterfall = FullMatrix(Rows, DefaultNfft)
    /\ db_max_smooth = None
    /\ freqs_mhz = FreqAxis(DefaultNfft, DefaultSampleRateKHz, DefaultCenterKHz)
    /\ timer_active = TRUE
    /\ timer_interval = TimerPeriod(DefaultFps)
    /\ closing = FALSE
    /\ pc = "idle"
    /\ raised = "none"
    /\ last = "init"
    /\ tick = NoTick
    /\ img_updates = 0
    /\ pushed = << >>
    /\ smooth_nfft = DefaultNfft
    /\ cand_range = None
    /\ submitted = [center |-> DefaultCenterKHz, rate |-> DefaultSampleRateKHz,
                    fft |-> DefaultNfft, fps |-> DefaultFps]
    /\ nticks = 0
    /\ napplies = 0

\* mutation of Dispatchable: a slot may start while update_once is blocked
Reentrant == TRUE

\* The Qt event loop delivers the next event only when the previous slot has
\* returned: the slots are connected directly and nothing re-enters the loop.
Dispatchable == pc = "idle"


\* ------------------------------------------------------------ update_once

\* mutation of ClosingFlagSet: update_once does not look at the flag
FlagIgnored == FALSE

\* line 171: if self._closing
ClosingFlagSet == closing

\* lines 170-175: the timer fires, the flag is inspected, the read starts
TickEnter ==
    /\ Dispatchable
    /\ timer_active
    /\ nticks < MaxTicks
    /\ nticks' = nticks + 1
    /\ IF ClosingFlagSet
       THEN /\ pc' = "idle"
            /\ tick' = [kind |-> "skipped"]
            /\ last' = "tick_skipped"
            /\ raised' = "none"
            /\ UNCHANGED sdr_calls_closed
       ELSE /\ pc' = "reading"
            /\ tick' = [kind |-> "reading", n |-> nfft]
            /\ sdr_calls_closed' = (sdr_calls_closed \/ ~sdr_open)
            /\ UNCHANGED << last, raised >>
    /\ UNCHANGED << sdr_center_freq, sdr_sample_rate, sdr_gain, sdr_open,
                    nfft, fps, waterfall_rows, dynamic_range_db, window,
                    waterfall, db_max_smooth, freqs_mhz, timer_active,
                    timer_interval, closing, img_updates, pushed,
                    smooth_nfft, cand_range, submitted, napplies >>

\* mutation of TickReadFails: the rows are scrolled before the read is known
\* to have succeeded, and the error is swallowed
TickReadFailsAfterScroll ==
    /\ pc = "reading"
    /\ pc' = "idle"
    /\ tick' = [kind |-> "read_failed"]
    /\ last' = "tick_read_failed"
    /\ raised' = "none"
    /\ waterfall' = [r \in 1..Len(waterfall) |->
                        waterfall[IF r < Len(waterfall) THEN r + 1 ELSE r]]
    /\ UNCHANGED << sdr_center_freq, sdr_sample_rate, sdr_gain, sdr_open,
                    sdr_calls_closed, nfft, fps, waterfall_rows,
                    dynamic_range_db, window, db_max_smooth,
                    freqs_mhz, timer_active, timer_interval, closing,
                    img_updates, pushed, smooth_nfft, cand_range, submitted,
                    nticks, napplies >>

\* line 175: read_samples raises; nothing after it runs
TickReadFails ==
    /\ pc = "reading"
    /\ pc' = "idle"
    /\ tick' = [kind |-> "read_failed"]
    /\ last' = "tick_read_failed"
    /\ raised' = "IOError"
    /\ UNCHANGED << sdr_center_freq, sdr_sample_rate, sdr_gain, sdr_open,
                    sdr_calls_closed, nfft, fps, waterfall_rows,
                    dynamic_range_db, window, waterfall, db_max_smooth,
                    freqs_mhz, timer_active, timer_interval, closing,
                    img_updates, pushed, smooth_nfft, cand_range, submitted,
                    nticks, napplies >>

\* line 181: iq * self.window raises ValueError, the lengths do not broadcast
TickBadLength(block) ==
    /\ pc = "reading"
    /\ ~Broadcasts(block.length, window.length)
    /\ pc' = "idle"
    /\ tick' = [kind |-> "bad_length", length |-> block.length]
    /\ last' = "tick_bad_length"
    /\ raised' = "ValueError"
    /\ UNCHANGED << sdr_center_freq, sdr_sample_rate, sdr_gain, sdr_open,
                    sdr_calls_closed, nfft, fps, waterfall_rows,
                    dynamic_range_db, window, waterfall, db_max_smooth,
                    freqs_mhz, timer_active, timer_interval, closing,
                    img_updates, pushed, smooth_nfft, cand_range, submitted,
                    nticks, napplies >>

\* mutation of LevelUpdate: the first observation is smoothed as well
LevelUpdateSmoothsFirst(smooth, cand) ==
    IF smooth = None THEN Some(Ema(Whole(F32(Whole(FillDb))), cand))
    ELSE Some(Ema(smooth[1], cand))

\* lines 189-195: the level update
LevelUpdate(smooth, cand) ==
    IF smooth = None THEN Some(cand) ELSE Some(Ema(smooth[1], cand))

\* mutation of DbMin: the range is taken below the candidate of this pass
DbMinHalfRange(db_max) ==
    LevelOf(F64Plus(WideOf(db_max), WideOf(Whole(-(dynamic_range_db \div 2)))))

\* line 198: db_min = db_max - self.dynamic_range_db
DbMin(db_max) ==
    LevelOf(F64Plus(WideOf(db_max), WideOf(Whole(-dynamic_range_db))))

\* lines 176-207: the read returned; transform, level update, push, display
TickPass(block) ==
    /\ pc = "reading"
    /\ Broadcasts(block.length, window.length)
    /\ \E new_db_max \in Percentiles(Transform(block, nfft)) :
       LET power_db == Transform(block, nfft)
           smooth == LevelUpdate(db_max_smooth, new_db_max)
           db_max == smooth[1]
           db_min == DbMin(db_max)
           row == ClipRow(power_db, db_min, db_max)
       IN  /\ db_max_smooth' = smooth
           /\ smooth_nfft' = IF db_max_smooth = None THEN nfft ELSE smooth_nfft
           /\ cand_range' =
                  IF db_max_smooth = None THEN << new_db_max, new_db_max >>
                  ELSE << IF LevelLt(new_db_max, cand_range[1])
                          THEN new_db_max ELSE cand_range[1],
                          IF LevelLt(cand_range[2], new_db_max)
                          THEN new_db_max ELSE cand_range[2] >>
           /\ waterfall' = Push(waterfall, row)
           /\ pushed' = Append(pushed, row)
           /\ tick' = [kind |-> "pushed", length |-> block.length,
                       power_db |-> power_db, new_db_max |-> new_db_max,
                       first |-> (db_max_smooth = None),
                       prev |-> db_max_smooth,
                       db_min |-> db_min, db_max |-> db_max, row |-> row]
    /\ img_updates' = img_updates + 1
    /\ pc' = "idle"
    /\ last' = "tick_pushed"
    /\ raised' = "none"
    /\ UNCHANGED << sdr_center_freq, sdr_sample_rate, sdr_gain, sdr_open,
                    sdr_calls_closed, nfft, fps, waterfall_rows,
                    dynamic_range_db, window, freqs_mhz, timer_active,
                    timer_interval, closing, submitted, nticks,
                    napplies >>

TickReturn ==
    /\ pc = "reading"
    /\ \/ TickReadFails
       \/ \E block \in Blocks(tick.n) : TickBadLength(block)
       \/ \E block \in Blocks(tick.n) : TickPass(block)

\* the same step when the reads return the blocks of UnevenBlocks
TickReturnUneven ==
    /\ pc = "reading"
    /\ \/ TickReadFails
       \/ \E block \in UnevenBlocks(tick.n) : TickBadLength(block)
       \/ \E block \in UnevenBlocks(tick.n) : TickPass(block)

\* --------------------------------------------------------- apply_settings

\* mutation of NewWindow: the window is not rebuilt
StaleWindow(n) == window

\* line 159: self.window = np.hanning(self.nfft).astype(np.float32)
NewWindow(n) == Hanning(n)

\* mutation of NewWaterfall: the history is carried over column by column
ResampledWaterfall(rows, n) ==
    [r \in 1..rows |->
        [c \in 1..n |-> IF c <= Len(waterfall[r]) THEN waterfall[r][c]
                        ELSE F32(Whole(FillDb))]]

\* mutation of NewWaterfall: the two dimensions are exchanged
TransposedWaterfall(rows, n) == FullMatrix(n, rows)

\* line 160: self.waterfall = np.full((rows, nfft), -120.0, dtype=np.float32)
NewWaterfall(rows, n) == FullMatrix(rows, n)

\* mutation of LevelAfterResize: the smoothed ceiling survives the resize
LevelKept == db_max_smooth

\* line 161: self._db_max_smooth = None
LevelAfterResize == None

\* mutation of NewGain: text that is no number switches the gain to auto
NewGainResets(gain_txt) ==
    IF gain_txt = "auto" THEN AutoGain
    ELSE IF IsFloatText(gain_txt) THEN FixedGain(ParseFloat(gain_txt))
    ELSE AutoGain

\* lines 146-153: "auto", a number, or (ValueError swallowed) the gain as it is
NewGain(gain_txt) ==
    IF gain_txt = "auto" THEN AutoGain
    ELSE IF IsFloatText(gain_txt) THEN FixedGain(ParseFloat(gain_txt))
    ELSE sdr_gain

\* mutation of FftChanged: the buffers are rebuilt on every Apply
AlwaysRebuild(new_nfft) == TRUE

\* line 157: if new_nfft != self.nfft
FftChanged(new_nfft) == new_nfft # nfft

\* lines 139-168.  fail names the device call that raises, if any; the
\* statements after it do not run.  The last statement, update_freq_axis,
\* reads the device twice: when it raises, everything before it has been
\* applied and the axis is the one of the previous configuration.
ApplySettings(freq, rate, gain_text, new_nfft, new_fps, fail) ==
    LET gain_txt == StripLower(gain_text)
        gainCall == gain_txt = "auto" \/ IsFloatText(gain_txt)
        okCenter == fail # "center_freq"
        okRate == okCenter /\ fail # "sample_rate"
        okGain == okRate /\ fail # "gain"
        done == okGain /\ fail # "freq_axis"
        resize == okGain /\ FftChanged(new_nfft)
        cf == IF okCenter THEN freq ELSE sdr_center_freq
        sr == IF okRate THEN rate ELSE sdr_sample_rate
        n == IF resize THEN new_nfft ELSE nfft
    IN  /\ Dispatchable
        /\ napplies < MaxApplies
        /\ fail = "gain" => gainCall
        /\ napplies' = napplies + 1
        /\ submitted' = IF done
                        THEN [center |-> freq, rate |-> rate,
                              fft |-> new_nfft, fps |-> new_fps]
                        ELSE submitted
        /\ sdr_calls_closed' = (sdr_calls_closed \/ ~sdr_open)
        /\ sdr_center_freq' = cf
        /\ sdr_sample_rate' = sr
        /\ sdr_gain' = IF okGain THEN NewGain(gain_txt) ELSE sdr_gain
        /\ nfft' = n
        /\ window' = IF resize THEN NewWindow(new_nfft) ELSE window
        /\ waterfall' = IF resize THEN NewWaterfall(waterfall_rows, new_nfft)
                        ELSE waterfall
        /\ db_max_smooth' = IF resize THEN LevelAfterResize ELSE db_max_smooth
        /\ pushed' = IF resize THEN << >> ELSE pushed
        /\ smooth_nfft' = IF resize THEN new_nfft ELSE smooth_nfft
        /\ cand_range' = IF resize THEN None ELSE cand_range
        /\ fps' = IF okGain THEN new_fps ELSE fps
        /\ timer_active' = IF okGain THEN TRUE ELSE timer_active
        /\ timer_interval' = IF okGain THEN TimerPeriod(new_fps)
                             ELSE timer_interval
        /\ freqs_mhz' = IF done THEN FreqAxis(n, sr, cf) ELSE freqs_mhz
        /\ raised' = IF done THEN "none" ELSE "IOError"
        /\ last' = IF done THEN "apply" ELSE "apply_failed"
        /\ tick' = IF pc # "idle" THEN tick
                   ELSE IF okRate THEN [kind |-> "apply", gain_txt |-> gain_txt]
                   ELSE NoTick
        /\ UNCHANGED << sdr_open, waterfall_rows, dynamic_range_db, closing,
                        pc, img_updates, nticks >>

\* ------------------------------------------------------------- closeEvent

\* mutation of CloseEvent: the try around sdr.close() is missing, the error
\* of a failed release escapes the handler
CloseEventRaises(stop_raises, close_raises) ==
    /\ Dispatchable
    /\ closing' = TRUE
    /\ timer_active' = IF stop_raises THEN timer_active ELSE FALSE
    /\ sdr_open' = IF close_raises THEN sdr_open ELSE FALSE
    /\ raised' = IF close_raises THEN "IOError" ELSE "none"
    /\ last' = IF closing /\ ~timer_active /\ ~sdr_open THEN "close_again"
               ELSE "close"
    /\ tick' = IF pc = "idle" THEN NoTick ELSE tick
    /\ UNCHANGED << sdr_center_freq, sdr_sample_rate, sdr_gain,
                    sdr_calls_closed, nfft, fps, waterfall_rows,
                    dynamic_range_db, window, waterfall, db_max_smooth,
                    freqs_mhz, timer_interval, pc, img_updates, pushed,
                    smooth_nfft, cand_range, submitted, nticks,
                    napplies >>

\* lines 209-219.  An exception of timer.stop() or sdr.close() is swallowed;
\* the call that raised has not taken effect.
CloseEvent(stop_raises, close_raises) ==
    /\ Dispatchable
    /\ closing' = TRUE
    /\ timer_active' = IF stop_raises THEN timer_active ELSE FALSE
    /\ sdr_open' = IF close_raises THEN sdr_open ELSE FALSE
    /\ raised' = "none"
    /\ last' = IF closing /\ ~timer_active /\ ~sdr_open THEN "close_again"
               ELSE "close"
    /\ tick' = IF pc = "idle" THEN NoTick ELSE tick
    /\ UNCHANGED << sdr_center_freq, sdr_sample_rate, sdr_gain,
                    sdr_calls_closed, nfft, fps, waterfall_rows,
                    dynamic_range_db, window, waterfall, db_max_smooth,
                    freqs_mhz, timer_interval, pc, img_updates, pushed,
                    smooth_nfft, cand_range, submitted, nticks,
                    napplies >>

\* the widgets apply_settings reads before the call that raises; a widget it
\* does not get to read shows what it showed before
GainTextsRead(fail) ==
    IF fail \in {"center_freq", "sample_rate"} THEN {" Auto "} ELSE GainTexts
FftItemsRead(fail) ==
    IF fail \in {"center_freq", "sample_rate", "gain"} THEN {nfft}
    ELSE FftItems

Apply ==
    \E fail \in ApplyFailures :
        \E freq \in FreqInputs, rate \in SrInputs,
           gain_text \in GainTextsRead(fail),
           new_nfft \in FftItemsRead(fail), new_fps \in FpsInputs :
            ApplySettings(freq, rate, gain_text, new_nfft, new_fps, fail)

Close == \E stop_raises \in BOOLEAN, close_raises \in BOOLEAN :
            CloseEvent(stop_raises, close_raises)

Next == TickEnter \/ TickReturn \/ Apply \/ Close

Spec == Init /\ [][Next]_vars

\* the program when the reads return the blocks of UnevenBlocks
NextUneven == TickEnter \/ TickReturnUneven \/ Apply \/ Close

SpecUneven == Init /\ [][NextUneven]_vars


\* ----------------------------------------------------------------- claims

Columns(w) == { Len(w[r]) : r \in 1..Len(w) }
FillRow(n) == LET fill == F32(Whole(FillDb)) IN [c \in 1..n |-> fill]
LastRow(w) == w[Len(w)]

\* the last handler that ran was a pass of update_once that pushed a row
JustPushed == pc = "idle" /\ tick.kind = "pushed"

\* C1: whenever no handler is running (after construction, at the entry of
\* every tick, after every apply_settings, returned or aborted), the window
\* length, the column count of every waterfall row and nfft are equal, and
\* nfft is one of the sizes the combo box offers.
C1_SizesAgree ==
    pc = "idle" =>
        /\ nfft \in FftItems
        /\ window.length = nfft
        /\ Columns(waterfall) = {nfft}

\* C1 witness: an Apply that changed nfft has returned after a tick had
\* pushed a row at the previous size.
C1_Witness ==
    /\ last = "apply"
    /\ nfft = 8 * NfftUnit
    /\ img_updates > 0
    /\ window.length = 8 * NfftUnit

\* C2: the waterfall holds the last rows pushed since it was allocated, in
\* order, newest at the bottom: with k rows pushed and R rows in the matrix,
\* row R-j is the row pushed by the (k-j)-th pass for every j < min(k, R),
\* and the rows above them still hold the fill value.
C2_Scrolling ==
    LET k == Len(pushed)
        R == Len(waterfall)
    IN  \A j \in 0..(R - 1) :
            waterfall[R - j] = IF j < k THEN pushed[k - j] ELSE FillRow(nfft)

\* C2 witness: more rows were pushed than the matrix holds, the first of
\* them differs from the later ones and is no longer in the matrix.
C2_Witness ==
    /\ Len(pushed) = Len(waterfall) + 1
    /\ \A r \in 1..Len(waterfall) : waterfall[r] # pushed[1]
    /\ waterfall[1] = pushed[2]
    /\ LastRow(waterfall) = pushed[Len(pushed)]
    /\ waterfall[1] # LastRow(waterfall)

\* C3: every value of the row a pass has just written lies between the floor
\* and the ceiling the level update returned in that pass.
C3_ClampProperty ==
    JustPushed =>
        \A c \in 1..Len(LastRow(waterfall)) :
            /\ LevelLe(tick.db_min, Whole(LastRow(waterfall)[c]))
            /\ LevelLe(Whole(LastRow(waterfall)[c]), tick.db_max)

\* every part of the program state that depends on the configuration has
\* the value it takes under the configuration cfg
DerivedFrom(cfg) ==
    /\ sdr_center_freq = cfg.center
    /\ sdr_sample_rate = cfg.rate
    /\ nfft = cfg.fft
    /\ window = Hanning(cfg.fft)
    /\ Columns(waterfall) = {cfg.fft}
    /\ db_max_smooth # None => smooth_nfft = cfg.fft
    /\ freqs_mhz = FreqAxis(cfg.fft, cfg.rate, cfg.center)
    /\ timer_interval = TimerPeriod(cfg.fps)

\* every configuration the form can submit, and the defaults
Configurations ==
    [center : FreqInputs \cup {DefaultCenterKHz},
     rate : SrInputs \cup {DefaultSampleRateKHz},
     fft : FftItems,
     fps : FpsInputs \cup {DefaultFps}]

\* C4: at the entry of every tick (no handler running, timer active) the
\* device frequency and rate, nfft, the window, the matrix columns, the level
\* state, the frequency axis and the timer period all derive from one and the
\* same configuration, also after an Apply that a device error cut short;
\* after an Apply that returned it is the configuration that was submitted.
C4_NoHalfApplied ==
    (pc = "idle" /\ timer_active) =>
        \E cfg \in Configurations :
            /\ DerivedFrom(cfg)
            /\ last = "apply" => cfg = submitted

\* C5: a pass whose read fails changes neither the waterfall nor the level
\* state nor the configuration, does not call setImage, and lets the error
\* escape.
C5_FailedReadNoMutation ==
    [][ (pc = "reading" /\ last' = "tick_read_failed") =>
            /\ waterfall' = waterfall
            /\ db_max_smooth' = db_max_smooth
            /\ pushed' = pushed
            /\ img_updates' = img_updates
            /\ << nfft, fps, window, dynamic_range_db, waterfall_rows,
                  freqs_mhz >>' =
               << nfft, fps, window, dynamic_range_db, waterfall_rows,
                  freqs_mhz >>
            /\ << sdr_center_freq, sdr_sample_rate, sdr_gain, timer_interval,
                  timer_active >>' =
               << sdr_center_freq, sdr_sample_rate, sdr_gain, timer_interval,
                  timer_active >>
            /\ raised' # "none" ]_vars

\* C5 witness: a read has failed after earlier passes had filled the matrix
\* and initialised the level state.
C5_Witness ==
    /\ last = "tick_read_failed"
    /\ raised = "IOError"
    /\ img_updates = 2
    /\ db_max_smooth # None
    /\ pushed # << >>

\* C6: while a pass of update_once is in progress (blocked in the read) the
\* only thing that happens is that this pass completes: no other tick starts,
\* no Apply and no Close runs.
C6_NoInterleaving ==
    [][ pc = "reading" =>
            /\ pc' = "idle"
            /\ last' \in {"tick_pushed", "tick_read_failed", "tick_bad_length"}
            /\ nticks' = nticks
            /\ napplies' = napplies
            /\ closing' = closing
            /\ << nfft, window, sdr_center_freq, sdr_sample_rate, sdr_gain,
                  sdr_open, timer_active, timer_interval, freqs_mhz >>' =
               << nfft, window, sdr_center_freq, sdr_sample_rate, sdr_gain,
                  sdr_open, timer_active, timer_interval, freqs_mhz >> ]_vars

\* C6 witness: a pass is blocked in the read after an earlier pass and an
\* Apply have completed.
C6_Witness ==
    /\ pc = "reading"
    /\ nticks >= 2
    /\ napplies >= 1

\* C7: a step that changes nfft leaves a matrix of waterfall_rows rows and
\* nfft columns with every cell at the fill value.
C7_ResizeResets ==
    [][ nfft' # nfft =>
            LET fill == F32(Whole(FillDb))
            IN  /\ Len(waterfall') = waterfall_rows
                /\ \A r \in 1..Len(waterfall') :
                       /\ Len(waterfall'[r]) = nfft'
                       /\ \A c \in 1..nfft' : waterfall'[r][c] = fill ]_vars

\* C7 witness: nfft was changed after every row of the matrix had been
\* written by a pass, and the matrix holds only the fill value.
C7_Witness ==
    /\ last = "apply"
    /\ nfft # DefaultNfft
    /\ img_updates >= Rows
    /\ pushed = << >>
    /\ \A r \in 1..Len(waterfall) : waterfall[r] = FillRow(nfft)

\* C8: a step that changes nfft leaves the level state uninitialised, and an
\* initialised level state was always accumulated under the current nfft.
C8_LevelInvalidated ==
    [][ /\ nfft' # nfft => db_max_smooth' = None
        /\ db_max_smooth' # None => smooth_nfft' = nfft' ]_vars

\* C8 witness: the level state is uninitialised after an Apply that changed
\* nfft, and it had been initialised by a pass before.
C8_Witness ==
    /\ last = "apply"
    /\ nfft # DefaultNfft
    /\ img_updates > 0
    /\ db_max_smooth = None

\* number of bins of the spectrum s that lie above the level v
BinsAbove(s, v) == Cardinality({ c \in 1..Len(s) : LevelLt(v, Whole(s[c])) })

\* C9: a pass that finds the level state uninitialised leaves the smoothed
\* ceiling, and the ceiling it clamps with, exactly at the 99th percentile of
\* its spectrum, the value np.percentile interpolates in the precision of the
\* spectrum; no more than the highest hundredth of the bins lies above it.
C9_FirstSampleExact ==
    [][ (db_max_smooth = None /\ pc = "reading" /\ tick'.kind = "pushed") =>
            /\ tick'.new_db_max \in Percentiles(tick'.power_db)
            /\ db_max_smooth' = Some(tick'.new_db_max)
            /\ tick'.db_max = tick'.new_db_max
            /\ 100 * BinsAbove(tick'.power_db, tick'.db_max)
                   <= Len(tick'.power_db) + 98 ]_vars

\* C9 witness: the first pass after an invalidation (an Apply that changed
\* nfft after an earlier pass had set the level) had an uneven spectrum; its
\* ceiling is the float64 percentile, which lies strictly between the two
\* highest bins and differs from the float32 one, and the row it pushed is
\* clamped there.
C9_Witness ==
    /\ JustPushed
    /\ tick.first
    /\ napplies > 0
    /\ img_updates >= 2
    /\ nfft # DefaultNfft
    /\ BinsAbove(tick.power_db, tick.new_db_max) = 1
    /\ \E c \in 1..nfft :
           /\ LevelLt(Whole(tick.power_db[c]), tick.new_db_max)
           /\ BinsAbove(tick.power_db, Whole(tick.power_db[c])) = 1
    /\ tick.new_db_max = Percentile99(tick.power_db)
    /\ tick.new_db_max # Percentile99Single(tick.power_db)
    /\ db_max_smooth = Some(tick.new_db_max)
    /\ \E c \in 1..nfft : LastRow(waterfall)[c] = F32(tick.new_db_max)

\* C10: whenever no handler is running, the stored frequency axis is the one
\* derived from the device's current centre frequency and sample rate and
\* from nfft, and it has as many entries as the waterfall has columns.
C10_AxisFresh ==
    pc = "idle" =>
        /\ freqs_mhz = FreqAxis(nfft, sdr_sample_rate, sdr_center_freq)
        /\ Columns(waterfall) = {Len(freqs_mhz)}

\* C11: a tick that starts after a Close has been processed returns at the
\* flag test: it does not start a read or touch the device, leaves the level
\* state and the waterfall as they are and does not call setImage.
C11_CancelledByFlag ==
    [][ (closing /\ pc = "idle" /\ nticks' # nticks) =>
            /\ pc' = "idle"
            /\ tick'.kind = "skipped"
            /\ sdr_calls_closed' = sdr_calls_closed
            /\ db_max_smooth' = db_max_smooth
            /\ cand_range' = cand_range
            /\ waterfall' = waterfall
            /\ pushed' = pushed
            /\ img_updates' = img_updates
            /\ raised' = "none" ]_vars

\* C11 witness: the timer fired after a Close (its stop had failed, or an
\* Apply restarted it) and the tick returned at the flag test; earlier passes
\* had written rows and initialised the level state.
C11_Witness ==
    /\ closing
    /\ pc = "idle"
    /\ tick.kind = "skipped"
    /\ last = "tick_skipped"
    /\ img_updates > 0
    /\ db_max_smooth # None

\* the attributes of the object and of its device and timer
ProgramState ==
    << sdr_center_freq, sdr_sample_rate, sdr_gain, sdr_open, nfft, fps,
       waterfall_rows, dynamic_range_db, window, waterfall, db_max_smooth,
       freqs_mhz, timer_active, timer_interval, closing >>

\* a step in which closeEvent ran
CloseStep ==
    /\ last' \in {"close", "close_again"}
    /\ nticks' = nticks
    /\ napplies' = napplies
    /\ pc = "idle"

\* C12 as stated: every Close after the first leaves the state the first
\* Close left, and no Close raises, also when stopping the timer or
\* releasing the device failed.
C12_RepeatedCloseSameState ==
    [][ CloseStep =>
            /\ raised' = "none"
            /\ closing => ProgramState' = ProgramState ]_vars

\* C12 amended: no Close raises and every Close leaves the closing flag set;
\* a Close processed when the timer is already stopped and the device already
\* released changes nothing; a Close never restarts the timer or reopens the
\* device, and changes nothing but the timer and the device handle.
C12_CloseIdempotent ==
    [][ CloseStep =>
            /\ raised' = "none"
            /\ closing'
            /\ ~timer_active => ~timer_active'
            /\ ~sdr_open => ~sdr_open'
            /\ << sdr_center_freq, sdr_sample_rate, sdr_gain, nfft, fps,
                  waterfall_rows, dynamic_range_db, window, waterfall,
                  db_max_smooth, freqs_mhz, timer_interval >>' =
               << sdr_center_freq, sdr_sample_rate, sdr_gain, nfft, fps,
                  waterfall_rows, dynamic_range_db, window, waterfall,
                  db_max_smooth, freqs_mhz, timer_interval >>
            /\ (closing /\ ~timer_active /\ ~sdr_open) =>
                   ProgramState' = ProgramState ]_vars

\* C12 witness: a Close was processed after an earlier Close had stopped the
\* timer and released the device, and after passes had written rows.
C12_Witness ==
    /\ last = "close_again"
    /\ closing
    /\ ~timer_active
    /\ ~sdr_open
    /\ raised = "none"
    /\ img_updates > 0

\* C13: an Apply whose gain text is neither "auto" nor a number leaves the
\* device gain as it was and raises nothing of its own, and the rest of the
\* reconfiguration is carried out as with valid text: centre frequency,
\* sample rate, nfft with window, matrix and level reset when it changed,
\* frame rate and timer, and the frequency axis.  The only error such an
\* Apply can end with is the device error of an axis read, which leaves the
\* axis as it was and everything else applied.
C13_InvalidGainIgnored ==
    [][ (napplies' # napplies /\ tick'.kind = "apply"
            /\ ~(tick'.gain_txt = "auto") /\ ~IsFloatText(tick'.gain_txt)) =>
            /\ sdr_gain' = sdr_gain
            /\ raised' \in {"none", "IOError"}
            /\ sdr_center_freq' \in FreqInputs
            /\ sdr_sample_rate' \in SrInputs
            /\ nfft' \in FftItems
            /\ window' = Hanning(nfft')
            /\ waterfall' = IF nfft' # nfft
                            THEN FullMatrix(waterfall_rows, nfft')
                            ELSE waterfall
            /\ db_max_smooth' = IF nfft' # nfft THEN None ELSE db_max_smooth
            /\ fps' \in FpsInputs
            /\ timer_active'
            /\ timer_interval' = TimerPeriod(fps')
            /\ raised' = "none" =>
                   /\ last' = "apply"
                   /\ submitted' = [center |-> sdr_center_freq',
                                    rate |-> sdr_sample_rate',
                                    fft |-> nfft', fps |-> fps']
                   /\ freqs_mhz' = FreqAxis(nfft', sdr_sample_rate',
                                            sdr_center_freq')
            /\ raised' = "IOError" =>
                   /\ last' = "apply_failed"
                   /\ freqs_mhz' = freqs_mhz ]_vars

\* C13 witness: the second Apply carried the text "abc" after the first had
\* set a fixed gain; the gain is still the fixed one and the new frequency,
\* rate and FFT size are in force.
C13_Witness ==
    /\ pc = "idle"
    /\ tick.kind = "apply"
    /\ tick.gain_txt = "abc"
    /\ last = "apply"
    /\ napplies = 2
    /\ sdr_gain = FixedGain(ParseFloat("35"))
    /\ sdr_center_freq = submitted.center
    /\ nfft # DefaultNfft

\* C14: a pass whose sample block has a length other than nfft (shorter,
\* longer, or a single sample) ends with an error and writes no row: when a
\* pass has finished on such a block, it is the failed kind and the error
\* escaped.
C14_BadLengthFails ==
    (pc = "idle" /\ tick.kind \in {"pushed", "bad_length"}
        /\ tick.length # nfft) =>
        /\ tick.kind = "bad_length"
        /\ raised = "ValueError"

\* C15: once a Close has been processed, no step changes nfft, the window,
\* the waterfall or the level state, none makes a call on a released device,
\* and none makes a stopped timer active again.
C15_ClosedIsTerminal ==
    [][ closing =>
            /\ nfft' = nfft
            /\ window' = window
            /\ waterfall' = waterfall
            /\ db_max_smooth' = db_max_smooth
            /\ ~sdr_open => sdr_calls_closed' = sdr_calls_closed
            /\ ~timer_active => ~timer_active' ]_vars

\* C16: the axis update_freq_axis computes for centre frequency cf, sample
\* rate sr and n bins has n entries spaced sr/n apart in strictly ascending
\* order, its first entry is cf - sr/2 and its last entry lies below
\* cf + sr/2 by at most one bin width.  (The stored axis is n times the
\* frequency, so the spacing sr/n reads sr.)
C16_AxisMapping ==
    last \in {"init", "apply"} =>
        LET n == nfft
            sr == sdr_sample_rate
            cf == sdr_center_freq
            a == freqs_mhz
        IN  /\ Len(a) = n
            /\ \A i \in 1..(n - 1) : a[i + 1] - a[i] = sr
            /\ \A i, j \in 1..n : i < j => a[i] < a[j]
            /\ 2 * a[1] = (2 * cf - sr) * n
            /\ 2 * a[n] <= (2 * cf + sr) * n
            /\ (2 * cf + sr) * n - 2 * a[n] <= 2 * sr

\* C16 witness: the axis was recomputed by an Apply for a frequency, a rate
\* and an FFT size that all differ from the defaults.
C16_Witness ==
    /\ last = "apply"
    /\ sdr_center_freq # DefaultCenterKHz
    /\ sdr_sample_rate # DefaultSampleRateKHz
    /\ nfft = 8 * NfftUnit
    /\ Len(freqs_mhz) = 8 * NfftUnit
    /\ freqs_mhz[1] # FreqAxis(DefaultNfft, DefaultSampleRateKHz,
                                DefaultCenterKHz)[1]

\* C17: in every reachable state the waterfall has exactly the number of
\* rows chosen at construction, and waterfall_rows still holds that number.
C17_RowCountFixed ==
    /\ waterfall_rows = Rows
    /\ Len(waterfall) = Rows

\* C17 witness: after an Apply that changed nfft, more passes than the
\* matrix has rows have pushed a row each.
C17_Witness ==
    /\ JustPushed
    /\ napplies > 0
    /\ nfft # DefaultNfft
    /\ Len(pushed) > Rows
    /\ Len(waterfall) = Rows

\* the exact span between ceiling and floor of the last pass
Span == LevelSub(tick.db_max, tick.db_min)

\* C18 as stated: dynamic_range_db is at least 60 dB in every state, and in
\* every pass that pushed a row the ceiling is the smoothed ceiling, the
\* floor is exactly that ceiling minus dynamic_range_db, and the span used
\* for clamping is never below 60 dB.
C18_SpanAtLeast60 ==
    /\ dynamic_range_db >= Db(60)
    /\ JustPushed =>
           /\ tick.db_max = db_max_smooth[1]
           /\ tick.db_min = LevelSub(tick.db_max, Whole(dynamic_range_db))
           /\ LevelLe(Whole(Db(60)), Span)

\* C18: dynamic_range_db is at least 60 dB in every state (no handler
\* assigns it after construction), and in every pass that pushed a row the
\* ceiling is the smoothed ceiling and the floor is the float64 nearest to
\* that ceiling minus dynamic_range_db, so the span used for clamping is
\* 60 dB to within half a unit in the last place of the floor (at most 8
\* steps of f, for a floor between -512 and -256 dB).
C18_DynamicRange ==
    /\ dynamic_range_db >= Db(60)
    /\ JustPushed =>
           /\ tick.db_max = db_max_smooth[1]
           /\ tick.db_min =
                  F64Level(LevelSub(tick.db_max, Whole(dynamic_range_db)))
           /\ LevelLe(LevelSub(Whole(Db(60)), << 0, 8 >>), Span)
           /\ LevelLe(Span, LevelAdd(Whole(Db(60)), << 0, 8 >>))

\* C18 witness: a pass with a smoothed ceiling (not the candidate of the
\* pass) has pushed a row after an Apply, and the floor, rounded, lies a
\* little less than 60 dB below the ceiling.
C18_Witness ==
    /\ JustPushed
    /\ ~tick.first
    /\ napplies > 0
    /\ tick.db_max = db_max_smooth[1]
    /\ tick.db_max # tick.new_db_max
    /\ LevelLt(Span, Whole(Db(60)))
    /\ LevelLt(Whole(Db(59)), Span)

LevelMin(a, b) == IF LevelLe(a, b) THEN a ELSE b
LevelMax(a, b) == IF LevelLe(a, b) THEN b ELSE a

\* previous ceiling, candidate and new ceiling of the last smoothing pass
Prev == tick.prev[1]
Cand == tick.new_db_max
New == db_max_smooth[1]

\* C19 as stated: after every pass that smoothed, the new ceiling is
\* 0.9 * previous + 0.1 * candidate (as line 195 evaluates it), lies
\* between the previous ceiling and the candidate, and lies between the
\* least and the greatest candidate seen since the level state was last
\* reset.
C19_BetweenPrevAndCandidate ==
    (JustPushed /\ ~tick.first) =>
        /\ tick.db_max = New
        /\ New = Ema(Prev, Cand)
        /\ LevelLe(LevelMin(Prev, Cand), New)
        /\ LevelLe(New, LevelMax(Prev, Cand))
        /\ LevelLe(cand_range[1], New)
        /\ LevelLe(New, cand_range[2])

\* one unit in the last place of the larger of two levels, in steps of f
UlpOf(a, b) ==
    LET ma == Magnitude(a)
        mb == Magnitude(b)
    IN  F64Spacing(IF ma < mb THEN mb ELSE ma)

\* the magnitudes x and y differ by at most k steps of 2^-52 dB
WideWithin(x, y, k) ==
    LET d == IF WideLt(x, y) THEN WideSub(y, x) ELSE WideSub(x, y)
    IN  d[1] = 0 /\ d[2] = 0 /\ d[3] <= k

\* C19: after every pass that smoothed (the level state was initialised
\* before it) the new ceiling is the float64 value of 0.9 * previous +
\* 0.1 * candidate: it equals the exact weighted mean to within 4 units in
\* the last place, lies between the previous ceiling and the candidate up
\* to that error, and lies between the least and the greatest candidate
\* seen since the level state was last reset up to 40 units in the last
\* place.
C19_SmoothingStep ==
    (JustPushed /\ ~tick.first) =>
        LET step == 4 * UlpOf(Prev, Cand)
            run == 40 * UlpOf(cand_range[1], cand_range[2])
        IN  /\ tick.db_max = New
            /\ WideWithin(WideTimes(WideOf(New), 10),
                          WideAdd(WideTimes(WideOf(Prev), 9), WideOf(Cand)),
                          10 * 16 * step)
            /\ LevelLe(LevelSub(LevelMin(Prev, Cand), << 0, step >>), New)
            /\ LevelLe(New, LevelAdd(LevelMax(Prev, Cand), << 0, step >>))
            /\ LevelLe(LevelSub(cand_range[1], << 0, run >>), New)
            /\ LevelLe(New, LevelAdd(cand_range[2], << 0, run >>))

\* C19 witness: a pass smoothed a candidate that differs from the previous
\* ceiling, which was itself a smoothed value, and the new ceiling lies
\* strictly between the two.
C19_Witness ==
    /\ JustPushed
    /\ ~tick.first
    /\ Prev # Cand
    /\ Prev[2] # 0
    /\ LevelLt(LevelMin(Prev, Cand), New)
    /\ LevelLt(New, LevelMax(Prev, Cand))
    /\ LevelLt(cand_range[1], cand_range[2])

\* C20: an Apply that leaves nfft as it is (the size selected is the current
\* one, or a device error ended the Apply before line 157) changes neither the window nor
\* any cell of the waterfall nor the level state, whatever it changes in
\* frequency, rate, gain or frame rate.
C20_ApplyKeepsHistory ==
    [][ (napplies' # napplies /\ nfft' = nfft) =>
            /\ window' = window
            /\ waterfall' = waterfall
            /\ db_max_smooth' = db_max_smooth
            /\ pushed' = pushed ]_vars

\* C20 witness: an Apply with the current FFT size has changed frequency,
\* rate, gain and frame rate after passes had written rows and initialised
\* the level state, and the rows and the level state are still there.
C20_Witness ==
    /\ last = "apply"
    /\ submitted.fft = nfft
    /\ sdr_center_freq # DefaultCenterKHz
    /\ sdr_sample_rate # DefaultSampleRateKHz
    /\ sdr_gain # AutoGain
    /\ fps # DefaultFps
    /\ Len(pushed) >= 2
    /\ LastRow(waterfall) = pushed[Len(pushed)]
    /\ LastRow(waterfall) # FillRow(nfft)
    /\ db_max_smooth # None

====
